---- MODULE Spec2Model ----
(***************************************************************************)
(* Access control and audit engine of the role-based user management       *)
(* backend (FastAPI + SQLAlchemy).  Every request handler is one action;   *)
(* the relational store is the only shared state.                          *)
(***************************************************************************)
EXTENDS Integers, Sequences, FiniteSets, TLC

(* ------------------------------ bounds -------------------------------- *)
MaxUsers == 3
\* rows of audit_logs and user_page_access: together when requests run one
\* at a time, per table when page-access updates overlap
MaxRows == 2
\* page-access updates that overlap
MaxWorkers == 2
\* audit inserts that fail in one run
MaxAuditErrors == 1

(* ------------------------- enums of the models ------------------------ *)
UserRole == {"admin", "manager", "agent", "viewer"}

PageName == {"dashboard", "interviews", "candidates", "calls", "settings",
             "user_management"}

\* pages guarded by check_page_access in the endpoint modules
GatedPages == {"candidates", "interviews", "calls"}

\* pages an administrator sets overrides for: one page behind a page gate that
\* agents and viewers lack, one that agents have, and the page of the role gate
OverridePages == {"candidates", "calls", "user_management"}

UserIds == 1..MaxUsers

\* 0 stands for a bearer token that verify_token rejects
Requesters == 0..MaxUsers

\* absent row of the users table
NoUser == [email |-> "", role |-> "none", active |-> FALSE]

\* SQL NULL in an integer column
NULL == 0

VARIABLES
    users,       \* users table: id -> [role, active] or NoUser
    nextUserId,  \* next primary key of the users table
    overrides,   \* user_page_access table, rows in storage order
    audit,       \* audit_logs table, rows in insertion (timestamp) order
    candidates,  \* number of rows of the candidates table
    resp,        \* response of the last request
    store_up,    \* the database answers the query on user_page_access
    audit_up,    \* the database accepts the insert into audit_logs
    audit_errors,\* audit inserts that raised so far
    inflight     \* page-access updates and user creations in progress, one per worker

vars == <<users, nextUserId, overrides, audit, candidates, resp, store_up, audit_up, audit_errors, inflight>>

data == <<users, nextUserId, overrides, audit, candidates>>

\* default of the limit query parameter of the audit read endpoints
DefaultLimit == 50

\* the number written next to the limit parameter as lte=
HardCap == 100

\* limits a client asks for
Limits == {1, DefaultLimit, HardCap + 1}

\* skip of the audit read endpoints when the request gives none
DefaultSkip == 0

\* bodies of PUT /users/{user_id}: a role change or an activation change
UserUpdate == [role : UserRole] \cup [active : BOOLEAN]

(* ---------------------------- seed data ------------------------------- *)
SeedRoles == <<"admin", "manager", "agent", "agent", "viewer">>

SeedEmails == <<"admin@example.com", "manager@example.com", "agent1@example.com",
                "agent2@example.com", "viewer@example.com">>

\* e-mail addresses a client sends: those of the seeded users and a new one
Emails == {SeedEmails[i] : i \in 1..(MaxUsers - 1)} \cup {"newuser@example.com"}

\* addresses sent to create a user while requests run one at a time: one
\* that a seeded user holds and a new one
NewUserEmails == {SeedEmails[1], "newuser@example.com"}

seed_users ==
    [i \in UserIds |->
        IF i < MaxUsers /\ i <= Len(SeedRoles)
        THEN [email |-> SeedEmails[i], role |-> SeedRoles[i], active |-> TRUE]
        ELSE NoUser]

(* ------------------------ permission resolver ------------------------- *)
\* permissions.get(page_name.value, False)
permissions_get(permissions, page) ==
    IF page \in DOMAIN permissions THEN permissions[page] ELSE FALSE

\* a table in which agents are given the candidates page
role_permissions_agent_candidates ==
    "admin" :> ("dashboard" :> TRUE @@ "interviews" :> TRUE @@ "candidates" :> TRUE @@
                "calls" :> TRUE @@ "settings" :> TRUE @@ "user_management" :> TRUE)
    @@
    "manager" :> ("dashboard" :> TRUE @@ "interviews" :> TRUE @@ "candidates" :> TRUE @@
                  "calls" :> TRUE @@ "settings" :> TRUE @@ "user_management" :> FALSE)
    @@
    "agent" :> ("dashboard" :> TRUE @@ "interviews" :> TRUE @@ "candidates" :> TRUE @@
                "calls" :> TRUE @@ "settings" :> TRUE @@ "user_management" :> FALSE)
    @@
    "viewer" :> ("dashboard" :> TRUE @@ "interviews" :> FALSE @@ "candidates" :> FALSE @@
                 "calls" :> FALSE @@ "settings" :> TRUE @@ "user_management" :> FALSE)

\* the role_permissions literal of get_user_permissions
role_permissions ==
    "admin" :> ("dashboard" :> TRUE @@ "interviews" :> TRUE @@ "candidates" :> TRUE @@
                "calls" :> TRUE @@ "settings" :> TRUE @@ "user_management" :> TRUE)
    @@
    "manager" :> ("dashboard" :> TRUE @@ "interviews" :> TRUE @@ "candidates" :> TRUE @@
                  "calls" :> TRUE @@ "settings" :> TRUE @@ "user_management" :> FALSE)
    @@
    "agent" :> ("dashboard" :> TRUE @@ "interviews" :> TRUE @@ "candidates" :> FALSE @@
                "calls" :> TRUE @@ "settings" :> TRUE @@ "user_management" :> FALSE)
    @@
    "viewer" :> ("dashboard" :> TRUE @@ "interviews" :> FALSE @@ "candidates" :> FALSE @@
                 "calls" :> FALSE @@ "settings" :> TRUE @@ "user_management" :> FALSE)

\* role_permissions.get(user.role, {})
role_permissions_get(role) ==
    IF role \in DOMAIN role_permissions
    THEN role_permissions[role]
    ELSE [p \in {} |-> FALSE]

\* a query on user_page_access without the filter on user_id
overrides_of_any_user(rows, uid) == rows

\* db.query(UserPageAccess).filter(UserPageAccess.user_id == user.id).all()
RECURSIVE overrides_of(_, _)
overrides_of(rows, uid) ==
    IF rows = <<>> THEN <<>>
    ELSE IF Head(rows).user_id = uid
         THEN <<Head(rows)>> \o overrides_of(Tail(rows), uid)
         ELSE overrides_of(Tail(rows), uid)

\* a resolver in which the most permissive of default and override wins
RECURSIVE apply_overrides_permissive(_, _)
apply_overrides_permissive(permissions, rows) ==
    IF rows = <<>> THEN permissions
    ELSE apply_overrides_permissive(
            [p \in (DOMAIN permissions) \cup {Head(rows).page_name} |->
                IF p = Head(rows).page_name
                THEN Head(rows).has_access \/ permissions_get(permissions, p)
                ELSE permissions[p]],
            Tail(rows))

\* for override in overrides: permissions[override.page_name] = override.has_access
RECURSIVE apply_overrides(_, _)
apply_overrides(permissions, rows) ==
    IF rows = <<>> THEN permissions
    ELSE apply_overrides(
            [p \in (DOMAIN permissions) \cup {Head(rows).page_name} |->
                IF p = Head(rows).page_name THEN Head(rows).has_access
                ELSE permissions[p]],
            Tail(rows))

\* CRUDUser.get_user_permissions(db, user)
get_user_permissions(rows, uid, role) ==
    apply_overrides(role_permissions_get(role), overrides_of(rows, uid))

(* ------------------------------ gates --------------------------------- *)
\* an identity check that forgets the is_active test
get_current_user_skip_active(tbl, r) ==
    IF r = 0 THEN 401
    ELSE IF tbl[r] = NoUser THEN 404
    ELSE 200

\* an identity check that trusts the user record as it was when the token
\* was issued
get_current_user_as_issued(tbl, r) ==
    IF r = 0 THEN 401
    ELSE IF seed_users[r] = NoUser THEN 404
    ELSE IF ~ seed_users[r].active THEN 400
    ELSE 200

\* deps.get_current_user: status of the identity check for a token of user r
get_current_user(tbl, r) ==
    IF r = 0 THEN 401
    ELSE IF tbl[r] = NoUser THEN 404
    ELSE IF ~ tbl[r].active THEN 400
    ELSE 200

\* an admin gate that asks the resolver for the user_management page
get_current_admin_user_by_page(tbl, r) ==
    IF get_current_user(tbl, r) # 200 THEN get_current_user(tbl, r)
    ELSE IF ~ permissions_get(get_user_permissions(overrides, r, tbl[r].role),
                              "user_management")
         THEN 403
    ELSE 200

\* deps.get_current_admin_user
get_current_admin_user(tbl, r) ==
    IF get_current_user(tbl, r) # 200 THEN get_current_user(tbl, r)
    ELSE IF tbl[r].role # "admin" THEN 403
    ELSE 200

\* a page gate that looks at the role default only
check_page_access_role_only(tbl, rows, r, page) ==
    IF get_current_user(tbl, r) # 200 THEN get_current_user(tbl, r)
    ELSE IF ~ permissions_get(role_permissions_get(tbl[r].role), page) THEN 403
    ELSE 200

\* deps.check_page_access(page_name)
check_page_access(tbl, rows, r, page) ==
    IF get_current_user(tbl, r) # 200 THEN get_current_user(tbl, r)
    \* get_user_permissions raises when its query fails; nothing catches it
    ELSE IF ~ store_up THEN 500
    ELSE IF ~ permissions_get(get_user_permissions(rows, r, tbl[r].role), page)
         THEN 403
    ELSE 200

\* detail of the HTTPException raised by the dependency that rejected
gate_detail(status, page) ==
    CASE status = 401 -> "Could not validate credentials"
      [] status = 404 -> "User not found"
      [] status = 400 -> "Inactive user"
      [] status = 403 -> IF page = "" THEN "Not enough permissions"
                         ELSE "Access denied to " \o page \o " page"
      [] status = 500 -> "Internal Server Error"
      [] OTHER -> ""

\* the tables can take n more rows within the bound of the model
RoomFor(n) == Len(audit) + Len(overrides) + n <= MaxRows

(* ------------------------- requests in flight ------------------------- *)
\* server workers that run update_user_page_access at the same time
Workers == 1..MaxWorkers

\* a worker that runs no page-access update
Idle == [pc |-> "idle", by |-> NULL, user_id |-> NULL, page_name |-> "",
         has_access |-> FALSE, current_access |-> FALSE, access |-> 0]

(* ---------------------------- responses ------------------------------- *)
NoPerms == [p \in {} |-> FALSE]

\* Python's None in a field that holds a mapping: the mapping without keys
None == [k \in {} |-> NULL]

\* by, target, page, value and limit repeat the request; status, detail,
\* perms, logs and body are what the handler answers (body: the JSON object
\* of update_user_page_access, None for the other operations)
Response(op, by, status, detail) ==
    [op |-> op, by |-> by, status |-> status, detail |-> detail,
     target |-> NULL, page |-> "", value |-> FALSE,
     perms |-> NoPerms, logs |-> <<>>, limit |-> 0, body |-> None]

\* update_user_page_access: the object it returns
page_access_updated(page_name) ==
    [message |-> <<"Page access updated for", page_name>>]

(* ----------------------------- audit log ------------------------------ *)
\* crud_audit_log.create raises: no row is written, the request ends in error
audit_insert_raises ==
    /\ UNCHANGED audit
    /\ audit_errors < MaxAuditErrors
    /\ audit_errors' = audit_errors + 1

\* CRUDBase.create on AuditLog: one new row, appended
AuditLogCreate(actor_id, action, target_user_id, metadata) ==
    [actor_id |-> actor_id, action |-> action, target_user_id |-> target_user_id,
     \* the schema has no field metadata: the keyword is dropped, meta_data
     \* keeps its default
     meta_data |-> None]

Init ==
    /\ users = seed_users
    /\ nextUserId = MaxUsers
    /\ overrides = <<>>
    /\ audit = <<>>
    /\ candidates = 0
    /\ resp = Response("none", 0, 0, "")
    /\ store_up = TRUE
    /\ audit_up = TRUE
    /\ audit_errors = 0
    /\ inflight = [w \in Workers |-> Idle]

(* --------------------------- override store --------------------------- *)
\* CRUDUserPageAccess.get_by_user_and_page: index of the first matching row, 0 if none
RECURSIVE first_match(_, _, _, _)
first_match(rows, uid, page, i) ==
    IF i > Len(rows) THEN 0
    ELSE IF rows[i].user_id = uid /\ rows[i].page_name = page THEN i
    ELSE first_match(rows, uid, page, i + 1)

get_by_user_and_page(rows, uid, page) == first_match(rows, uid, page, 1)

\* an upsert that always inserts
set_user_page_access_insert(rows, uid, page, has_access) ==
    Append(rows, [user_id |-> uid, page_name |-> page, has_access |-> has_access])

\* an upsert that leaves an existing row as it is
set_user_page_access_keep(rows, uid, page, has_access) ==
    IF get_by_user_and_page(rows, uid, page) # 0
    THEN rows
    ELSE Append(rows, [user_id |-> uid, page_name |-> page, has_access |-> has_access])

\* CRUDUserPageAccess.set_user_page_access: update the existing row, else insert
set_user_page_access(rows, uid, page, has_access) ==
    IF get_by_user_and_page(rows, uid, page) # 0
    THEN [rows EXCEPT ![get_by_user_and_page(rows, uid, page)].has_access = has_access]
    ELSE Append(rows, [user_id |-> uid, page_name |-> page, has_access |-> has_access])

(* --------------------------- audit read path -------------------------- *)
\* first n elements of a sequence (SQL LIMIT)
sql_limit(s, n) == IF Len(s) <= n THEN s ELSE SubSeq(s, 1, n)

\* a role filter that filters nothing for managers
recent_filter_manager_all(tbl, logs, i, user_role, user_id) ==
    CASE user_role \in {"admin", "manager"} -> TRUE
      [] user_role \in {"agent", "viewer"} -> logs[i].actor_id = user_id
      [] OTHER -> TRUE

\* a role filter that hides from managers the entries of the users who
\* were seeded as admin, whatever their role is now
recent_filter_seeded_role(tbl, logs, i, user_role, user_id) ==
    CASE user_role = "admin" -> TRUE
      [] user_role = "manager" ->
            /\ logs[i].actor_id \in DOMAIN tbl
            /\ tbl[logs[i].actor_id] # NoUser
            /\ SeedRoles[logs[i].actor_id] # "admin"
      [] user_role \in {"agent", "viewer"} -> logs[i].actor_id = user_id
      [] OTHER -> TRUE

\* the role filter of get_recent_logs applied to row i
recent_filter(tbl, logs, i, user_role, user_id) ==
    CASE user_role = "admin" -> TRUE
      [] user_role = "manager" ->
            \* query.join(AuditLog.actor).filter(User.role != "admin")
            /\ logs[i].actor_id \in DOMAIN tbl
            /\ tbl[logs[i].actor_id] # NoUser
            /\ tbl[logs[i].actor_id].role # "admin"
      [] user_role \in {"agent", "viewer"} -> logs[i].actor_id = user_id
      [] OTHER -> TRUE

\* the filtered rows 1..i ordered by timestamp descending (ids of the rows)
RECURSIVE recent_query(_, _, _, _, _)
recent_query(tbl, logs, i, user_role, user_id) ==
    IF i = 0 THEN <<>>
    ELSE IF recent_filter(tbl, logs, i, user_role, user_id)
         THEN <<i>> \o recent_query(tbl, logs, i - 1, user_role, user_id)
         ELSE recent_query(tbl, logs, i - 1, user_role, user_id)

\* a query that cuts to the limit before it filters
get_recent_logs_limit_first(tbl, logs, limit, user_role, user_id) ==
    SelectSeq(sql_limit([k \in 1..Len(logs) |-> Len(logs) + 1 - k], limit),
              LAMBDA i : recent_filter(tbl, logs, i, user_role, user_id))

\* CRUDAuditLog.get_recent_logs: ids of the returned rows
get_recent_logs(tbl, logs, limit, user_role, user_id) ==
    sql_limit(recent_query(tbl, logs, Len(logs), user_role, user_id), limit)

\* rows of a result after the first k (SQL OFFSET)
sql_offset(s, k) == IF k >= Len(s) THEN <<>> ELSE SubSeq(s, k + 1, Len(s))

\* the filter of get_user_logs applied to row i
user_filter(logs, i, user_id) ==
    logs[i].actor_id = user_id \/ logs[i].target_user_id = user_id

\* the filtered rows 1..i ordered by timestamp descending (ids of the rows)
RECURSIVE user_query(_, _, _)
user_query(logs, i, user_id) ==
    IF i = 0 THEN <<>>
    ELSE IF user_filter(logs, i, user_id)
         THEN <<i>> \o user_query(logs, i - 1, user_id)
         ELSE user_query(logs, i - 1, user_id)

\* CRUDAuditLog.get_user_logs: ids of the returned rows
get_user_logs(logs, user_id, skip, limit) ==
    sql_limit(sql_offset(user_query(logs, Len(logs), user_id), skip), limit)

\* a handler that lists the logs of whatever user id the path names
listed_user_id_as_asked(role, current_id, user_id) == user_id

\* get_user_audit_logs: a non-admin who names another user is given their own id
listed_user_id(role, current_id, user_id) ==
    IF role # "admin" /\ current_id # user_id THEN current_id ELSE user_id

(* ------------------------------ handlers ------------------------------ *)
\* POST /auth/login; uid is the user the e-mail belongs to
login_access_token(uid, password_ok) ==
    /\ IF users[uid] = NoUser \/ ~ password_ok
       THEN /\ resp' = Response("login", uid, 401, "Incorrect email or password")
            /\ UNCHANGED <<audit, audit_errors>>
       ELSE IF ~ users[uid].active
       THEN /\ resp' = Response("login", uid, 400, "Inactive user")
            /\ UNCHANGED <<audit, audit_errors>>
       ELSE IF ~ audit_up
       THEN \* crud_audit_log.create raises and nothing catches it
            /\ resp' = Response("login", uid, 500, gate_detail(500, ""))
            /\ audit_insert_raises
       ELSE /\ RoomFor(1)
            /\ UNCHANGED audit_errors
            /\ audit' = Append(audit, AuditLogCreate(uid, "login", NULL, [email |-> uid]))
            /\ resp' = Response("login", uid, 200, "")
    /\ UNCHANGED <<users, nextUserId, overrides, candidates, store_up, audit_up, inflight>>

\* POST /auth/logout
logout(r) ==
    /\ IF get_current_user(users, r) # 200
       THEN /\ resp' = Response("logout", r, get_current_user(users, r),
                                gate_detail(get_current_user(users, r), ""))
            /\ UNCHANGED <<audit, audit_errors>>
       ELSE IF ~ audit_up
       THEN \* crud_audit_log.create raises and nothing catches it
            /\ resp' = Response("logout", r, 500, gate_detail(500, ""))
            /\ audit_insert_raises
       ELSE /\ RoomFor(1)
            /\ UNCHANGED audit_errors
            /\ audit' = Append(audit, AuditLogCreate(r, "logout", NULL, [email |-> r]))
            /\ resp' = Response("logout", r, 200, "Successfully logged out")
    /\ UNCHANGED <<users, nextUserId, overrides, candidates, store_up, audit_up, inflight>>

\* GET /candidates/, /interviews/, /calls/: a read behind check_page_access(page)
read_page(r, page) ==
    /\ resp' = [Response("read_page", r, check_page_access(users, overrides, r, page),
                         gate_detail(check_page_access(users, overrides, r, page), page))
                EXCEPT !.page = page]
    /\ UNCHANGED <<users, nextUserId, overrides, audit, audit_errors, candidates, store_up, audit_up, inflight>>

\* POST /candidates/: a write behind check_page_access(CANDIDATES)
create_candidate(r) ==
    /\ IF check_page_access(users, overrides, r, "candidates") # 200
       THEN /\ resp' = [Response("create_candidate", r,
                                 check_page_access(users, overrides, r, "candidates"),
                                 gate_detail(check_page_access(users, overrides, r, "candidates"),
                                             "candidates"))
                        EXCEPT !.page = "candidates"]
            /\ UNCHANGED <<audit, audit_errors, candidates>>
       ELSE /\ RoomFor(1)
            /\ candidates' = candidates + 1
            /\ IF audit_up
               THEN /\ UNCHANGED audit_errors
                    /\ audit' = Append(audit, AuditLogCreate(r, "create_candidate", NULL, None))
                    /\ resp' = [Response("create_candidate", r, 200, "")
                                EXCEPT !.page = "candidates"]
               ELSE \* the candidate row is committed, the audit insert raises
                    /\ audit_insert_raises
                    /\ resp' = [Response("create_candidate", r, 500, gate_detail(500, ""))
                                EXCEPT !.page = "candidates"]
    /\ UNCHANGED <<users, nextUserId, overrides, store_up, audit_up, inflight>>

\* GET /users/me/permissions
get_my_permissions_role_defaults(r) ==
    /\ IF get_current_user(users, r) # 200
       THEN resp' = Response("get_my_permissions", r, get_current_user(users, r),
                             gate_detail(get_current_user(users, r), ""))
       ELSE resp' = [Response("get_my_permissions", r, 200, "")
                     EXCEPT !.perms = role_permissions_get(users[r].role)]
    /\ UNCHANGED <<users, nextUserId, overrides, audit, audit_errors, candidates,
                   store_up, audit_up, inflight>>

\* GET /users/me/permissions
get_my_permissions(r) ==
    /\ IF get_current_user(users, r) # 200
       THEN resp' = Response("get_my_permissions", r, get_current_user(users, r),
                             gate_detail(get_current_user(users, r), ""))
       ELSE IF ~ store_up
       THEN resp' = Response("get_my_permissions", r, 500, gate_detail(500, ""))
       ELSE resp' = [Response("get_my_permissions", r, 200, "")
                     EXCEPT !.perms = get_user_permissions(overrides, r, users[r].role)]
    /\ UNCHANGED <<users, nextUserId, overrides, audit, audit_errors, candidates, store_up, audit_up, inflight>>

\* GET /users/ (admin only)
read_users(r) ==
    /\ resp' = Response("read_users", r, get_current_admin_user(users, r),
                        gate_detail(get_current_admin_user(users, r), ""))
    /\ UNCHANGED <<users, nextUserId, overrides, audit, audit_errors, candidates, store_up, audit_up, inflight>>

\* GET /users/{user_id} (admin only)
read_user_by_id(r, user_id) ==
    /\ IF get_current_admin_user(users, r) # 200
       THEN resp' = Response("read_user_by_id", r, get_current_admin_user(users, r),
                             gate_detail(get_current_admin_user(users, r), ""))
       ELSE IF users[user_id] = NoUser
       THEN resp' = [Response("read_user_by_id", r, 404, "User not found")
                     EXCEPT !.target = user_id]
       ELSE IF ~ store_up
       THEN resp' = [Response("read_user_by_id", r, 500, gate_detail(500, ""))
                     EXCEPT !.target = user_id]
       ELSE resp' = [Response("read_user_by_id", r, 200, "")
                     EXCEPT !.target = user_id,
                            !.perms = get_user_permissions(overrides, user_id,
                                                           users[user_id].role)]
    /\ UNCHANGED <<users, nextUserId, overrides, audit, audit_errors, candidates, store_up, audit_up, inflight>>

\* CRUDUser.get_by_email: id of the first user with the address, NULL for none
get_by_email(tbl, email) ==
    IF \E u \in UserIds : tbl[u] # NoUser /\ tbl[u].email = email
    THEN CHOOSE u \in UserIds :
            /\ tbl[u] # NoUser /\ tbl[u].email = email
            /\ \A v \in 1..(u - 1) : tbl[v] = NoUser \/ tbl[v].email # email
    ELSE NULL

\* a users table without the unique index on email
email_conflict_never(tbl, uid, email) == FALSE

\* users.email is unique: writing the address into row uid is refused when
\* another row holds it
email_conflict(tbl, uid, email) ==
    \E u \in UserIds \ {uid} : tbl[u] # NoUser /\ tbl[u].email = email

\* POST /users/ (admin only): the user row is committed, then the audit row
create_user(r, email, role, active) ==
    /\ IF get_current_admin_user(users, r) # 200
       THEN /\ resp' = Response("create_user", r, get_current_admin_user(users, r),
                                gate_detail(get_current_admin_user(users, r), ""))
            /\ UNCHANGED <<users, nextUserId, audit, audit_errors>>
       ELSE IF get_by_email(users, email) # NULL
       THEN /\ resp' = Response("create_user", r, 400,
                                "The user with this email already exists.")
            /\ UNCHANGED <<users, nextUserId, audit, audit_errors>>
       ELSE /\ nextUserId <= MaxUsers
            /\ RoomFor(1)
            /\ users' = [users EXCEPT ![nextUserId] =
                             [email |-> email, role |-> role, active |-> active]]
            /\ nextUserId' = nextUserId + 1
            /\ IF audit_up
               THEN /\ UNCHANGED audit_errors
                    /\ audit' = Append(audit, AuditLogCreate(r, "create_user", nextUserId,
                                                 [role |-> role]))
                    /\ resp' = [Response("create_user", r, 200, "")
                                EXCEPT !.target = nextUserId]
               ELSE \* the user row is committed, the audit insert raises
                    /\ audit_insert_raises
                    /\ resp' = [Response("create_user", r, 500, gate_detail(500, ""))
                                EXCEPT !.target = nextUserId]
    /\ UNCHANGED <<overrides, candidates, store_up, audit_up, inflight>>

\* PUT /users/{user_id} (admin only): audit row only when a field changed;
\* user_in carries the fields the client set (exclude_unset)
update_user(r, user_id, user_in) ==
  LET email == IF "email" \in DOMAIN user_in THEN user_in.email ELSE users[user_id].email
      role == IF "role" \in DOMAIN user_in THEN user_in.role ELSE users[user_id].role
      active == IF "active" \in DOMAIN user_in THEN user_in.active ELSE users[user_id].active
  IN
    /\ IF get_current_admin_user(users, r) # 200
       THEN /\ resp' = Response("update_user", r, get_current_admin_user(users, r),
                                gate_detail(get_current_admin_user(users, r), ""))
            /\ UNCHANGED <<users, audit, audit_errors>>
       ELSE IF users[user_id] = NoUser
       THEN /\ resp' = [Response("update_user", r, 404, "User not found")
                        EXCEPT !.target = user_id]
            /\ UNCHANGED <<users, audit, audit_errors>>
       ELSE IF email_conflict(users, user_id, email)
       THEN \* crud_user.update: the commit violates the unique index
            /\ resp' = [Response("update_user", r, 500, "IntegrityError")
                        EXCEPT !.target = user_id]
            /\ UNCHANGED <<users, audit, audit_errors>>
       ELSE /\ users' = [users EXCEPT ![user_id] =
                             [email |-> email, role |-> role, active |-> active]]
            /\ IF users[user_id].email # email \/ users[user_id].role # role
                  \/ users[user_id].active # active
               THEN IF audit_up
                    THEN /\ RoomFor(1)
                         /\ UNCHANGED audit_errors
                         /\ audit' = Append(audit, AuditLogCreate(r, "update_user", user_id,
                                                      [changes |-> user_in]))
                         /\ resp' = [Response("update_user", r, 200, "")
                                     EXCEPT !.target = user_id]
                    ELSE \* the update is committed, the audit insert raises
                         /\ audit_insert_raises
                         /\ resp' = [Response("update_user", r, 500, gate_detail(500, ""))
                                     EXCEPT !.target = user_id]
               ELSE /\ UNCHANGED <<audit, audit_errors>>
                    /\ resp' = [Response("update_user", r, 200, "")
                                EXCEPT !.target = user_id]
    /\ UNCHANGED <<nextUserId, overrides, candidates, store_up, audit_up, inflight>>

\* rows that the ORM must detach when the user row is deleted and whose
\* foreign key column is NOT NULL (user_page_access.user_id, audit_logs.actor_id)
delete_blocked(rows, logs, user_id) ==
    \/ \E i \in 1..Len(rows) : rows[i].user_id = user_id
    \/ \E i \in 1..Len(logs) : logs[i].actor_id = user_id

\* audit_logs.target_user_id is nullable: the ORM sets it to NULL on delete
detach_target(logs, user_id) ==
    [i \in 1..Len(logs) |->
        IF logs[i].target_user_id = user_id
        THEN [logs[i] EXCEPT !.target_user_id = NULL]
        ELSE logs[i]]

\* a handler that does not look whether the target is the requester
own_account_never(user_id, current_id) == FALSE

\* delete_user: the target of the request is the requester's own account
own_account(user_id, current_id) == user_id = current_id

\* DELETE /users/{user_id} (admin only); fkEnforced: the database enforces
\* FOREIGN KEY constraints (PostgreSQL does, SQLite as the engine is set up does not)
delete_user(r, user_id, fkEnforced) ==
    /\ IF get_current_admin_user(users, r) # 200
       THEN /\ resp' = Response("delete_user", r, get_current_admin_user(users, r),
                                gate_detail(get_current_admin_user(users, r), ""))
            /\ UNCHANGED <<users, audit, audit_errors>>
       ELSE IF users[user_id] = NoUser
       THEN /\ resp' = [Response("delete_user", r, 404, "User not found")
                        EXCEPT !.target = user_id]
            /\ UNCHANGED <<users, audit, audit_errors>>
       ELSE IF own_account(user_id, r)
       THEN /\ resp' = [Response("delete_user", r, 400, "Cannot delete your own account")
                        EXCEPT !.target = user_id]
            /\ UNCHANGED <<users, audit, audit_errors>>
       ELSE IF delete_blocked(overrides, audit, user_id)
       THEN \* crud_user.remove: the flush violates NOT NULL, nothing is committed
            /\ resp' = [Response("delete_user", r, 500, "IntegrityError")
                        EXCEPT !.target = user_id]
            /\ UNCHANGED <<users, audit, audit_errors>>
       ELSE /\ users' = [users EXCEPT ![user_id] = NoUser]
            /\ IF fkEnforced \/ ~ audit_up
               THEN \* the audit insert raises (the row references the deleted user,
                    \* or the table does not accept it); the delete is committed
                    /\ audit' = detach_target(audit, user_id)
                    /\ IF audit_up
                       THEN UNCHANGED audit_errors
                       ELSE /\ audit_errors < MaxAuditErrors
                            /\ audit_errors' = audit_errors + 1
                    /\ resp' = [Response("delete_user", r, 500, "IntegrityError")
                                EXCEPT !.target = user_id]
               ELSE /\ RoomFor(1)
                    /\ UNCHANGED audit_errors
                    /\ audit' = Append(detach_target(audit, user_id),
                                       AuditLogCreate(r, "delete_user", user_id,
                                                      [role |-> users[user_id].role]))
                    /\ resp' = [Response("delete_user", r, 200, "User deleted successfully")
                                EXCEPT !.target = user_id]
    /\ UNCHANGED <<nextUserId, overrides, candidates, store_up, audit_up, inflight>>

\* a handler that writes an audit entry for every request
access_changed_always(current_access, has_access) == TRUE

\* update_user_page_access: the condition under which the audit entry is written
access_changed(current_access, has_access) == current_access # has_access

\* a handler that writes the override row before it looks the user up
update_user_page_access_set_first(r, user_id, page_name, has_access) ==
    /\ IF get_current_admin_user(users, r) # 200
       THEN /\ resp' = Response("update_user_page_access", r,
                                get_current_admin_user(users, r),
                                gate_detail(get_current_admin_user(users, r), ""))
            /\ UNCHANGED overrides
       ELSE /\ overrides' = set_user_page_access(overrides, user_id, page_name, has_access)
            /\ Len(audit) + Len(overrides') <= MaxRows
            /\ resp' = [Response("update_user_page_access", r,
                                 IF users[user_id] = NoUser THEN 404 ELSE 200,
                                 IF users[user_id] = NoUser THEN "User not found"
                                 ELSE "Page access updated")
                        EXCEPT !.target = user_id, !.page = page_name, !.value = has_access]
    /\ UNCHANGED <<users, nextUserId, audit, audit_errors, candidates, store_up,
                   audit_up, inflight>>

\* PUT /users/{user_id}/page-access/{page_name}?has_access= (admin only)
update_user_page_access(r, user_id, page_name, has_access) ==
    /\ IF get_current_admin_user(users, r) # 200
       THEN /\ resp' = Response("update_user_page_access", r,
                                get_current_admin_user(users, r),
                                gate_detail(get_current_admin_user(users, r), ""))
            /\ UNCHANGED <<overrides, audit, audit_errors>>
       ELSE IF users[user_id] = NoUser
       THEN /\ resp' = [Response("update_user_page_access", r, 404, "User not found")
                        EXCEPT !.target = user_id, !.page = page_name, !.value = has_access]
            /\ UNCHANGED <<overrides, audit, audit_errors>>
       ELSE IF ~ store_up
       THEN /\ resp' = [Response("update_user_page_access", r, 500, gate_detail(500, ""))
                        EXCEPT !.target = user_id, !.page = page_name, !.value = has_access]
            /\ UNCHANGED <<overrides, audit, audit_errors>>
       ELSE /\ overrides' = set_user_page_access(overrides, user_id, page_name, has_access)
            /\ IF access_changed(permissions_get(get_user_permissions(overrides, user_id,
                                                       users[user_id].role), page_name),
                              has_access)
               THEN IF audit_up
                    THEN /\ UNCHANGED audit_errors
                         /\ audit' = Append(audit,
                                    AuditLogCreate(r, "update_page_access", user_id,
                                        [page |-> page_name, access_granted |-> has_access,
                                         previous_access |->
                                            permissions_get(get_user_permissions(overrides,
                                                user_id, users[user_id].role), page_name)]))
                    ELSE audit_insert_raises
               ELSE UNCHANGED <<audit, audit_errors>>
            /\ Len(audit') + Len(overrides') <= MaxRows
            /\ IF access_changed(permissions_get(get_user_permissions(overrides, user_id,
                                                       users[user_id].role), page_name),
                              has_access)
                  /\ ~ audit_up
               THEN \* the override is committed, the audit insert raises
                    resp' = [Response("update_user_page_access", r, 500, gate_detail(500, ""))
                             EXCEPT !.target = user_id, !.page = page_name,
                                    !.value = has_access]
               ELSE resp' = [Response("update_user_page_access", r, 200,
                                      "Page access updated")
                             EXCEPT !.body = page_access_updated(page_name),
                                    !.target = user_id, !.page = page_name,
                                    !.value = has_access]
    /\ UNCHANGED <<users, nextUserId, candidates, store_up, audit_up, inflight>>

\* get_recent_audit_logs: the dict the handler builds for a row
recent_result(log) ==
    [actor_id |-> log.actor_id, action |-> log.action,
     target_user_id |-> log.target_user_id, metadata |-> log.meta_data]

\* response_model=List[AuditLog]: the fields of the schema are read from the
\* dict, a field the dict does not name takes its default, other keys are dropped
AuditLogSchema(d) ==
    [actor_id |-> d.actor_id, action |-> d.action, target_user_id |-> d.target_user_id,
     meta_data |-> IF "meta_data" \in DOMAIN d THEN d.meta_data ELSE None]

\* GET /audit-logs/recent?limit=
get_recent_audit_logs(r, limit) ==
    /\ IF get_current_user(users, r) # 200
       THEN resp' = Response("get_recent_audit_logs", r, get_current_user(users, r),
                             gate_detail(get_current_user(users, r), ""))
       ELSE resp' = [Response("get_recent_audit_logs", r, 200, "")
                     EXCEPT !.limit = limit,
                            !.logs = get_recent_logs(users, audit, limit, users[r].role, r)]
    /\ UNCHANGED <<users, nextUserId, overrides, audit, audit_errors, candidates, store_up, audit_up, inflight>>

\* GET /audit-logs/user/{user_id}?limit= (skip left at its default)
get_user_audit_logs(r, user_id, limit) ==
    /\ IF get_current_user(users, r) # 200
       THEN resp' = Response("get_user_audit_logs", r, get_current_user(users, r),
                             gate_detail(get_current_user(users, r), ""))
       ELSE resp' = [Response("get_user_audit_logs", r, 200, "")
                     EXCEPT !.target = user_id, !.limit = limit,
                            !.logs = get_user_logs(audit,
                                        listed_user_id(users[r].role, r, user_id),
                                        DefaultSkip, limit)]
    /\ UNCHANGED <<users, nextUserId, overrides, audit, audit_errors, candidates, store_up, audit_up, inflight>>

\* GET /audit-logs/ (admin only)
get_all_audit_logs(r) ==
    /\ IF get_current_admin_user(users, r) # 200
       THEN resp' = Response("get_all_audit_logs", r, get_current_admin_user(users, r),
                             gate_detail(get_current_admin_user(users, r), ""))
       ELSE resp' = [Response("get_all_audit_logs", r, 200, "")
                     EXCEPT !.limit = DefaultLimit,
                            !.logs = sql_limit([i \in 1..Len(audit) |-> i], DefaultLimit)]
    /\ UNCHANGED <<users, nextUserId, overrides, audit, audit_errors, candidates, store_up, audit_up, inflight>>

(* --------------------------- specification ---------------------------- *)
\* the parameters of a request to an admin-only endpoint: a request that the
\* dependency rejects is answered the same whatever its parameters are, so
\* one representative is enumerated for it
Body(r, S) ==
    IF get_current_admin_user(users, r) = 200 THEN S ELSE {CHOOSE x \in S : TRUE}

Next ==
    \/ \E uid \in UserIds, ok \in BOOLEAN : login_access_token(uid, ok)
    \/ \E r \in Requesters : logout(r)
    \/ \E r \in Requesters, p \in GatedPages : read_page(r, p)
    \/ \E r \in Requesters : create_candidate(r)
    \/ \E r \in Requesters : get_my_permissions(r)
    \/ \E r \in Requesters : read_users(r)
    \/ \E r \in Requesters : \E uid \in Body(r, UserIds) : read_user_by_id(r, uid)
    \/ \E r \in Requesters :
         \E e \in Body(r, NewUserEmails), role \in Body(r, UserRole), a \in Body(r, BOOLEAN) :
            create_user(r, e, role, a)
    \/ \E r \in Requesters : \E uid \in Body(r, UserIds), user_in \in Body(r, UserUpdate) :
            update_user(r, uid, user_in)
    \/ \E r \in Requesters : \E uid \in Body(r, UserIds), fk \in Body(r, BOOLEAN) :
            delete_user(r, uid, fk)
    \/ \E r \in Requesters : \E uid \in Body(r, UserIds), p \in Body(r, OverridePages),
         v \in Body(r, BOOLEAN) :
            update_user_page_access(r, uid, p, v)
    \/ \E r \in Requesters, l \in Limits : get_recent_audit_logs(r, l)
    \/ \E r \in Requesters, uid \in UserIds, l \in Limits : get_user_audit_logs(r, uid, l)
    \/ \E r \in Requesters : get_all_audit_logs(r)

Spec == Init /\ [][Next]_vars

(* ------------------- failing reads of the override store -------------- *)
\* the query on user_page_access starts to fail, or works again
store_fault ==
    /\ store_up' = ~ store_up
    /\ UNCHANGED <<users, nextUserId, overrides, audit, audit_errors, candidates, resp, audit_up, inflight>>

FaultNext ==
    \/ store_fault
    \/ \E r \in Requesters, p \in GatedPages : read_page(r, p)
    \/ \E r \in Requesters : create_candidate(r)
    \/ \E r \in Requesters : get_my_permissions(r)
    \/ \E r \in Requesters : \E uid \in Body(r, UserIds), user_in \in Body(r, UserUpdate) :
            update_user(r, uid, user_in)
    \/ \E r \in Requesters : \E uid \in Body(r, UserIds), p \in Body(r, OverridePages),
         v \in Body(r, BOOLEAN) :
            update_user_page_access(r, uid, p, v)

FaultSpec == Init /\ [][FaultNext]_vars

(* -------------------- failing writes of the audit log ---------------- *)
\* the insert into audit_logs starts to fail, or works again
audit_fault ==
    /\ audit_up' = ~ audit_up
    /\ UNCHANGED <<users, nextUserId, overrides, audit, audit_errors, candidates, resp, store_up, inflight>>

\* pages whose access is set while requests overlap or the audit log fails
ContendedPages == {"candidates", "user_management"}

\* roles given to users while the audit log is failing
FaultRoles == {"agent", "viewer"}

AuditFaultNext ==
    \/ audit_fault
    \/ \E r \in Requesters : \E role \in Body(r, FaultRoles) :
            create_user(r, "newuser@example.com", role, TRUE)
    \/ \E r \in Requesters : \E uid \in Body(r, UserIds), user_in \in Body(r, [role : FaultRoles]) :
            update_user(r, uid, user_in)
    \/ \E r \in Requesters : \E uid \in Body(r, UserIds), fk \in Body(r, BOOLEAN) :
            delete_user(r, uid, fk)
    \/ \E r \in Requesters : \E uid \in Body(r, UserIds), p \in Body(r, ContendedPages),
         v \in Body(r, BOOLEAN) :
            update_user_page_access(r, uid, p, v)

AuditFaultSpec == Init /\ [][AuditFaultNext]_vars

\* the audit insert of login and logout fails
SessionFaultNext ==
    \/ audit_fault
    \/ \E uid \in UserIds, ok \in BOOLEAN : login_access_token(uid, ok)
    \/ \E r \in Requesters : logout(r)

SessionFaultSpec == Init /\ [][SessionFaultNext]_vars

(* ------------------ overlapping page-access updates ------------------- *)
\* update_user_page_access up to the call of set_user_page_access: the
\* dependency, crud_user.get and the read of the current permissions
page_access_begin(w, r, user_id, page_name, has_access) ==
    \* the request goes to the first free worker
    /\ inflight[w].pc = "idle"
    /\ \A v \in 1..(w - 1) : inflight[v].pc # "idle"
    /\ IF get_current_admin_user(users, r) # 200
       THEN /\ resp' = Response("update_user_page_access", r,
                                get_current_admin_user(users, r),
                                gate_detail(get_current_admin_user(users, r), ""))
            /\ UNCHANGED inflight
       ELSE IF users[user_id] = NoUser
       THEN /\ resp' = [Response("update_user_page_access", r, 404, "User not found")
                        EXCEPT !.target = user_id, !.page = page_name, !.value = has_access]
            /\ UNCHANGED inflight
       ELSE /\ inflight' = [inflight EXCEPT ![w] =
                   [pc |-> "query", by |-> r, user_id |-> user_id,
                    page_name |-> page_name, has_access |-> has_access,
                    current_access |->
                        permissions_get(get_user_permissions(overrides, user_id,
                                                             users[user_id].role),
                                        page_name),
                    access |-> 0]]
            /\ UNCHANGED resp
    /\ UNCHANGED <<users, nextUserId, overrides, audit, audit_errors, candidates, store_up, audit_up>>

\* set_user_page_access: access = self.get_by_user_and_page(...)
page_access_query(w) ==
    /\ inflight[w].pc = "query"
    /\ inflight' = [inflight EXCEPT
                       ![w].pc = "write",
                       ![w].access = get_by_user_and_page(overrides, inflight[w].user_id,
                                                          inflight[w].page_name)]
    /\ UNCHANGED <<users, nextUserId, overrides, audit, audit_errors, candidates, resp, store_up, audit_up>>

\* set_user_page_access: the UPDATE or the INSERT with db.commit(), then the
\* audit row of the endpoint; unique: the table carries the UniqueConstraint
\* of the migration (the table built from the ORM model does not)
page_access_commit(w, unique) ==
  LET c == inflight[w] IN
    /\ c.pc = "write"
    /\ IF c.access = 0 /\ unique
          /\ get_by_user_and_page(overrides, c.user_id, c.page_name) # 0
       THEN \* IntegrityError at commit: the request ends with an error
            /\ resp' = [Response("update_user_page_access", c.by, 500, "IntegrityError")
                        EXCEPT !.target = c.user_id, !.page = c.page_name,
                               !.value = c.has_access]
            /\ UNCHANGED <<overrides, audit, audit_errors>>
       ELSE /\ overrides' =
                  IF c.access # 0
                  THEN [overrides EXCEPT ![c.access].has_access = c.has_access]
                  ELSE Append(overrides, [user_id |-> c.user_id, page_name |-> c.page_name,
                                          has_access |-> c.has_access])
            /\ Len(overrides') <= MaxRows
            /\ IF access_changed(c.current_access, c.has_access)
               THEN /\ Len(audit) < MaxRows
                    /\ UNCHANGED audit_errors
                    /\ audit' = Append(audit,
                                       AuditLogCreate(c.by, "update_page_access", c.user_id,
                                           [page |-> c.page_name,
                                            access_granted |-> c.has_access,
                                            previous_access |-> c.current_access]))
               ELSE UNCHANGED <<audit, audit_errors>>
            /\ resp' = [Response("update_user_page_access", c.by, 200, "Page access updated")
                        EXCEPT !.body = page_access_updated(c.page_name),
                               !.target = c.user_id, !.page = c.page_name,
                               !.value = c.has_access]
    /\ inflight' = [inflight EXCEPT ![w] = Idle]
    /\ UNCHANGED <<users, nextUserId, candidates, store_up, audit_up>>

ConcNext ==
    \/ \E w \in Workers, r \in Requesters :
         \E uid \in Body(r, UserIds), p \in Body(r, ContendedPages), v \in Body(r, BOOLEAN) :
            page_access_begin(w, r, uid, p, v)
    \/ \E w \in Workers : page_access_query(w)
    \/ \E w \in Workers, unique \in BOOLEAN : page_access_commit(w, unique)

ConcSpec == Init /\ [][ConcNext]_vars

(* ----------------- overlapping requests to create a user -------------- *)
\* create_user up to the look-up of the address: the dependency, get_by_email
create_user_begin(w, r, email, role) ==
    /\ inflight[w].pc = "idle"
    /\ \A v \in 1..(w - 1) : inflight[v].pc # "idle"
    /\ IF get_current_admin_user(users, r) # 200
       THEN /\ resp' = Response("create_user", r, get_current_admin_user(users, r),
                                gate_detail(get_current_admin_user(users, r), ""))
            /\ UNCHANGED inflight
       ELSE IF get_by_email(users, email) # NULL
       THEN /\ resp' = Response("create_user", r, 400,
                                "The user with this email already exists.")
            /\ UNCHANGED inflight
       ELSE /\ inflight' = [inflight EXCEPT ![w] =
                   [pc |-> "insert", by |-> r, email |-> email, role |-> role]]
            /\ UNCHANGED resp
    /\ UNCHANGED <<users, nextUserId, overrides, audit, audit_errors, candidates,
                   store_up, audit_up>>

\* crud_user.create: the INSERT with db.commit(), then the audit row
create_user_commit(w) ==
  LET c == inflight[w] IN
    /\ c.pc = "insert"
    /\ IF email_conflict(users, NULL, c.email)
       THEN \* IntegrityError at commit: the request ends with an error
            /\ resp' = Response("create_user", c.by, 500, "IntegrityError")
            /\ UNCHANGED <<users, nextUserId, audit>>
       ELSE /\ nextUserId <= MaxUsers
            /\ RoomFor(1)
            /\ users' = [users EXCEPT ![nextUserId] =
                             [email |-> c.email, role |-> c.role, active |-> TRUE]]
            /\ nextUserId' = nextUserId + 1
            /\ audit' = Append(audit, AuditLogCreate(c.by, "create_user", nextUserId,
                                                     [role |-> c.role]))
            /\ resp' = [Response("create_user", c.by, 200, "")
                        EXCEPT !.target = nextUserId]
    /\ inflight' = [inflight EXCEPT ![w] = Idle]
    /\ UNCHANGED <<overrides, audit_errors, candidates, store_up, audit_up>>

EmailNext ==
    \/ \E w \in Workers, r \in Requesters :
         \E e \in Body(r, Emails), role \in Body(r, FaultRoles) :
            create_user_begin(w, r, e, role)
    \/ \E w \in Workers : create_user_commit(w)
    \/ \E r \in Requesters : \E uid \in Body(r, UserIds), user_in \in Body(r, [email : Emails]) :
            update_user(r, uid, user_in)
    \/ \E r \in Requesters : \E uid \in Body(r, UserIds) : delete_user(r, uid, FALSE)

EmailSpec == Init /\ [][EmailNext]_vars

(* ------------------- role changes and the audit list ------------------ *)
\* the users table with every slot taken by a seeded user
seed_all_users ==
    [i \in UserIds |-> [email |-> SeedEmails[i], role |-> SeedRoles[i], active |-> TRUE]]

RoleInit ==
    /\ users = seed_all_users
    /\ nextUserId = MaxUsers + 1
    /\ overrides = <<>>
    /\ audit = <<>>
    /\ candidates = 0
    /\ resp = Response("none", 0, 0, "")
    /\ store_up = TRUE
    /\ audit_up = TRUE
    /\ audit_errors = 0
    /\ inflight = [w \in Workers |-> Idle]

\* users log in, admins change roles, and everyone lists the recent entries
RoleNext ==
    \/ \E uid \in UserIds : login_access_token(uid, TRUE)
    \/ \E r \in UserIds : \E uid \in Body(r, UserIds), user_in \in Body(r, [role : UserRole]) :
            update_user(r, uid, user_in)
    \/ \E r \in UserIds, l \in Limits : get_recent_audit_logs(r, l)

RoleSpec == RoleInit /\ [][RoleNext]_vars

(* ============================== claims ================================ *)
\* the rows of the override store that belong to (u, page)
RowsFor(rows, u, page) ==
    {i \in 1..Len(rows) : rows[i].user_id = u /\ rows[i].page_name = page}

\* what the resolver answers for user u and a page
EffectivePermission(u, page) ==
    permissions_get(get_user_permissions(overrides, u, users[u].role), page)

\* C1: override precedence: for every user and page P, an override row
\* (user, P, V) makes the resolved permission for P equal V whatever the role
\* default is, and every page Q without an override row resolves to the role
\* default of the user's role.
OverridePrecedence ==
    \A u \in UserIds : users[u] # NoUser =>
        LET perms == get_user_permissions(overrides, u, users[u].role)
        IN \A P \in PageName :
              /\ P \in DOMAIN perms
              /\ \A i \in RowsFor(overrides, u, P) : perms[P] = overrides[i].has_access
              /\ RowsFor(overrides, u, P) = {} => perms[P] = role_permissions[users[u].role][P]

\* C1 witness: the permissions endpoint has answered a user whose override
\* contradicts the role default, and reports the override
OverridePrecedenceWitness ==
    /\ resp.op = "get_my_permissions" /\ resp.status = 200
    /\ \E i \in 1..Len(overrides) :
          /\ overrides[i].user_id = resp.by
          /\ overrides[i].has_access # role_permissions[users[resp.by].role][overrides[i].page_name]
          /\ resp.perms[overrides[i].page_name] = overrides[i].has_access

\* the role-default table as the specification states it
StatedDefault(role, page) ==
    CASE role = "admin"   -> TRUE
      [] role = "manager" -> page # "user_management"
      [] role = "agent"   -> page \in {"dashboard", "interviews", "calls", "settings"}
      [] role = "viewer"  -> page \in {"dashboard", "settings"}

\* C9: role defaults with no overrides: a user without override rows resolves
\* to a mapping over all six pages that equals the stated role-default table.
RoleDefaultsWithoutOverrides ==
    \A u \in UserIds :
        (users[u] # NoUser /\ overrides_of(overrides, u) = <<>>) =>
            get_user_permissions(overrides, u, users[u].role)
                = [p \in PageName |-> StatedDefault(users[u].role, p)]

\* C9 witness: the permissions endpoint has answered an agent without
\* overrides with the agent row of the table
RoleDefaultsWitness ==
    /\ resp.op = "get_my_permissions" /\ resp.status = 200
    /\ users[resp.by].role = "agent"
    /\ overrides_of(overrides, resp.by) = <<>>
    /\ resp.perms = [p \in PageName |-> StatedDefault("agent", p)]

\* requests answered by an endpoint behind check_page_access
PageGatedOps == {"read_page", "create_candidate"}

\* C2: page-access gate: a request of an active authenticated user to an
\* operation behind check_page_access(P) is allowed exactly when the user's
\* effective permission for P is true at that time; otherwise it is answered
\* 403 "Access denied to P page" and the operation does not run.
PageAccessGate ==
    [][(resp'.op \in PageGatedOps /\ get_current_user(users, resp'.by) = 200) =>
          IF EffectivePermission(resp'.by, resp'.page)
          THEN /\ resp'.status = 200
               /\ resp'.op = "create_candidate" => candidates' = candidates + 1
          ELSE /\ resp'.status = 403
               /\ resp'.detail = "Access denied to " \o resp'.page \o " page"
               /\ UNCHANGED data]_vars

\* C2 witness: a manager whose candidates access was revoked asked to create
\* a candidate and was refused with the page-qualified message
PageAccessGateWitness ==
    /\ resp.op = "create_candidate" /\ resp.status = 403
    /\ resp.detail = "Access denied to candidates page"
    /\ users[resp.by].role = "manager" /\ users[resp.by].active
    /\ candidates = 0

\* requests answered by an endpoint behind get_current_admin_user
AdminOps == {"read_users", "read_user_by_id", "create_user", "update_user",
             "delete_user", "update_user_page_access", "get_all_audit_logs"}

\* C4: role gate ignores overrides: a user-management operation or listAll of
\* the audit log, asked by an active authenticated user, passes its gate
\* exactly when the requester's role is admin, whatever override rows exist
\* for the user_management page.
RoleGateIgnoresOverrides ==
    [][(resp'.op \in AdminOps /\ get_current_user(users, resp'.by) = 200) =>
          /\ (resp'.status = 403) <=> (users[resp'.by].role # "admin")
          /\ resp'.status = 403 => (resp'.detail = "Not enough permissions" /\ UNCHANGED data)]_vars

\* C4 witness: a non-admin holding an override (u, user_management, true)
\* asked for a user-management operation and was refused
RoleGateWitness ==
    /\ resp.op \in AdminOps /\ resp.status = 403
    /\ \E i \in RowsFor(overrides, resp.by, "user_management") : overrides[i].has_access

\* the entries of the audit log the specification lets requester u see
VisibleEntries(u) ==
    CASE users[u].role = "admin" -> 1..Len(audit)
      [] users[u].role = "manager" ->
            {i \in 1..Len(audit) :
                ~ (audit[i].actor_id \in UserIds /\ users[audit[i].actor_id].role = "admin")}
      [] OTHER -> {i \in 1..Len(audit) : audit[i].actor_id = u}

Range(s) == {s[i] : i \in 1..Len(s)}

\* C5: listRecent visibility: an admin sees every entry, a manager every
\* entry but those whose actor has role admin, an agent or viewer only the
\* entries whose actor is the requester; nothing outside the visible set is
\* returned, and all of it is returned when the limit allows.
ListRecentVisibility ==
    (resp.op = "get_recent_audit_logs" /\ resp.status = 200) =>
        /\ Range(resp.logs) \subseteq VisibleEntries(resp.by)
        /\ Cardinality(VisibleEntries(resp.by)) <= resp.limit =>
              Range(resp.logs) = VisibleEntries(resp.by)

\* C5 witness: a manager listed a log that holds an entry written by an admin
\* and an entry written by a manager, and received the latter only
ListRecentVisibilityWitness ==
    /\ resp.op = "get_recent_audit_logs" /\ resp.status = 200
    /\ users[resp.by].role = "manager"
    /\ \E i \in 1..Len(audit) : users[audit[i].actor_id].role = "admin"
    /\ Len(resp.logs) = 1
    /\ users[audit[resp.logs[1]].actor_id].role = "manager"

\* C7: sequential upsert: requests do not overlap, and then there is at most
\* one override row per (user_id, page); the first set for a key inserts a
\* row, a later set updates it in place, and the row holds the last value.
SequentialUpsert ==
    /\ [](\A u \in UserIds, P \in PageName : Cardinality(RowsFor(overrides, u, P)) <= 1)
    /\ [][(resp'.op = "update_user_page_access" /\ resp'.status = 200) =>
            /\ \E i \in 1..Len(overrides') :
                  /\ RowsFor(overrides', resp'.target, resp'.page) = {i}
                  /\ overrides'[i].has_access = resp'.value
            /\ IF RowsFor(overrides, resp'.target, resp'.page) = {}
               THEN Len(overrides') = Len(overrides) + 1
               ELSE Len(overrides') = Len(overrides)
            /\ \A i \in 1..Len(overrides) :
                  i \notin RowsFor(overrides, resp'.target, resp'.page) =>
                      overrides'[i] = overrides[i]]_vars

\* C7 witness: a set was answered for a key whose single row now holds a
\* value that differs from the role default, next to a row of another key
SequentialUpsertWitness ==
    /\ resp.op = "update_user_page_access" /\ resp.status = 200
    /\ Len(overrides) = 2
    /\ \E i \in 1..Len(overrides) :
          /\ RowsFor(overrides, resp.target, resp.page) = {i}
          /\ overrides[i].has_access = resp.value

\* C8: immediate effect: after a permission change for (u, P) has completed,
\* the next request of u to an operation behind the gate of P is decided by
\* the new value, and the permissions endpoint reports the new value.
ImmediateEffect ==
    [][(/\ resp.op = "update_user_page_access" /\ resp.status = 200
        /\ resp'.by = resp.target
        /\ get_current_user(users, resp'.by) = 200) =>
          /\ (resp'.op \in PageGatedOps /\ resp'.page = resp.page) =>
                resp'.status = (IF resp.value THEN 200 ELSE 403)
          /\ resp'.op = "get_my_permissions" =>
                (resp'.status = 200 /\ resp'.perms[resp.page] = resp.value)]_vars

\* C8 witness: the permissions endpoint reports a revoked page to a user
\* whose role grants it
ImmediateEffectWitness ==
    /\ resp.op = "get_my_permissions" /\ resp.status = 200
    /\ users[resp.by].role = "manager"
    /\ resp.perms["calls"] = FALSE
    /\ Len(audit) = 1 /\ audit[1].action = "update_page_access"

\* requests that pass through get_current_user
AuthenticatedOps == PageGatedOps \cup AdminOps
                    \cup {"logout", "get_my_permissions", "get_recent_audit_logs"}

\* C10: inactive identity is rejected first: a request with the credential of
\* a user whose active flag is false is rejected before a permission check or
\* the operation runs, whatever role and overrides the user has; a login of
\* an inactive user is rejected too.
InactiveRejectedFirst ==
    [][(resp'.by \in UserIds /\ users[resp'.by] # NoUser /\ ~ users[resp'.by].active) =>
          /\ resp'.op \in AuthenticatedOps =>
                (resp'.status = 400 /\ resp'.detail = "Inactive user" /\ UNCHANGED data)
          /\ resp'.op = "login" => (resp'.status \in {400, 401} /\ UNCHANGED data)]_vars

\* C10 witness: an inactive user who holds a granting override asked for the
\* page and was rejected as inactive
InactiveRejectedWitness ==
    /\ resp.op = "read_page" /\ resp.status = 400 /\ resp.detail = "Inactive user"
    /\ ~ users[resp.by].active
    /\ \E i \in 1..Len(overrides) : overrides[i].user_id = resp.by /\ overrides[i].has_access

\* C3: fail closed: when permission resolution is anomalous (here: the read
\* of the override store fails) the gate answers Deny, that is 403
\* AuthorizationDenied, and the protected operation does not run.
FailClosed ==
    [][(/\ ~ store_up /\ UNCHANGED store_up
        /\ resp'.op \in PageGatedOps
        /\ get_current_user(users, resp'.by) = 200) =>
          (resp'.status = 403 /\ UNCHANGED data)]_vars

\* C6: concurrent upsert: whatever the interleaving of two set calls on one
\* (user, page) key, the override store holds exactly one row for the key
\* after a call has completed; two rows for one key are unreachable.
ConcurrentUpsert ==
    /\ \A u \in UserIds, P \in PageName : Cardinality(RowsFor(overrides, u, P)) <= 1
    /\ (resp.op = "update_user_page_access" /\ resp.status = 200) =>
          Cardinality(RowsFor(overrides, resp.target, resp.page)) = 1

\* C11: audit immutability: an audit entry, once written, is never changed
\* or removed by an operation of the application, also not when the user
\* that is its actor or its target is updated or deleted; the log only grows.
AuditImmutability ==
    [][/\ Len(audit') >= Len(audit)
       /\ \A i \in 1..Len(audit) : audit'[i] = audit[i]]_vars

\* the operations whose state change is security relevant, with the action
\* tag of their audit entry
CriticalAction ==
    [create_user |-> "create_user", delete_user |-> "delete_user",
     update_user |-> "update_user", update_user_page_access |-> "update_page_access"]

\* a user was created, deleted or changed, or an effective permission changed
CriticalChange ==
    \/ users' # users
    \/ \E u \in UserIds, P \in PageName :
          /\ users[u] # NoUser
          /\ permissions_get(get_user_permissions(overrides', u, users[u].role), P)
                # permissions_get(get_user_permissions(overrides, u, users[u].role), P)

\* C12: audit/state atomicity for critical actions: user creation, user
\* deletion, role change and permission change are applied together with
\* their audit entry or not at all, so no step commits such a change without
\* appending its audit entry.
AuditStateAtomicity ==
    [][(resp'.op \in DOMAIN CriticalAction /\ CriticalChange) =>
          /\ Len(audit') = Len(audit) + 1
          /\ audit'[Len(audit')].action = CriticalAction[resp'.op]
          /\ audit'[Len(audit')].actor_id = resp'.by]_vars

\* C18: non-fatal audit for login and logout: a login with valid credentials
\* of an active user and a logout of an authenticated user succeed also when
\* the audit write fails; they are never answered with a server error.
NonFatalSessionAudit ==
    [][/\ resp'.op = "login" => resp'.status \in {200, 400, 401}
       /\ (resp'.op = "logout" /\ get_current_user(users, resp'.by) = 200) =>
             resp'.status = 200]_vars

\* the entries of the audit log in which user u acted or was acted upon
EntriesOf(u) ==
    {i \in 1..Len(audit) : audit[i].actor_id = u \/ audit[i].target_user_id = u}

ListRecentShape ==
    (resp.op = "get_recent_audit_logs" /\ resp.status = 200) =>
        LET V == VisibleEntries(resp.by)
            n == IF Cardinality(V) <= resp.limit THEN Cardinality(V) ELSE resp.limit
        IN /\ Len(resp.logs) = n
           /\ \A k \in 1..n :
                 /\ resp.logs[k] \in V
                 /\ Cardinality({j \in V : j > resp.logs[k]}) = k - 1

\* C14 witness: a manager asked for one entry while the most recent entry was
\* written by an admin, and received the older entry that is visible
ListRecentShapeWitness ==
    /\ resp.op = "get_recent_audit_logs" /\ resp.status = 200
    /\ users[resp.by].role = "manager" /\ resp.limit = 1
    /\ Len(audit) = 2 /\ users[audit[2].actor_id].role = "admin"
    /\ resp.logs = <<1>>

AuditReadOps == {"get_recent_audit_logs", "get_user_audit_logs", "get_all_audit_logs"}

\* C15: limit clamping: an audit read endpoint answers a request for more
\* than 100 entries with success and runs its query with the limit 100; the
\* limit of the query it runs (resp.limit) is never above the hard cap.
LimitClamped ==
    (resp.op \in AuditReadOps /\ resp.status = 200) => resp.limit <= HardCap

\* an admin's request to delete another, existing user produced the response
DeleteRequested ==
    /\ resp'.op = "delete_user"
    /\ get_current_admin_user(users, resp'.by) = 200
    /\ resp'.target \in UserIds /\ resp'.target # resp'.by
    /\ users[resp'.target] # NoUser

\* C16: deleted actor scenario: an admin deletes a user who is the actor of
\* audit entries; the deletion succeeds, the user is gone and every one of
\* those entries stays in the log as it was, to be listed without its actor.
DeletedActorKept ==
    [][(DeleteRequested /\ \E i \in 1..Len(audit) : audit[i].actor_id = resp'.target) =>
          /\ resp'.status = 200
          /\ users'[resp'.target] = NoUser
          /\ \A i \in 1..Len(audit) :
                i <= Len(audit') /\ audit'[i].actor_id = audit[i].actor_id]_vars

\* C17: override cascade: when a user who owns override rows is deleted, the
\* user is removed and every override row of that user is removed with it.
OverrideCascade ==
    [][(DeleteRequested /\ \E i \in 1..Len(overrides) : overrides[i].user_id = resp'.target) =>
          /\ users'[resp'.target] = NoUser
          /\ \A i \in 1..Len(overrides') : overrides'[i].user_id # resp'.target]_vars

\* the effective permission of u for page P as the specification defines it:
\* the value of the override row when there is one, else the role default
PermissionBefore(u, P) ==
    IF RowsFor(overrides, u, P) # {}
    THEN overrides[CHOOSE i \in RowsFor(overrides, u, P) : TRUE].has_access
    ELSE StatedDefault(users[u].role, P)

\* C19: no-op permission changes are not logged: a permission-change request
\* for (u, P, v) appends one update_page_access entry if and only if the
\* effective permission of u for P before the request differs from v; when it
\* equals v already, by role default or by an override, the log is unchanged.
NoOpNotLogged ==
    [][(resp'.op = "update_user_page_access" /\ resp'.status = 200) =>
          IF PermissionBefore(resp'.target, resp'.page) # resp'.value
          THEN /\ Len(audit') = Len(audit) + 1
               /\ SubSeq(audit', 1, Len(audit)) = audit
               /\ audit'[Len(audit')].action = "update_page_access"
               /\ audit'[Len(audit')].actor_id = resp'.by
               /\ audit'[Len(audit')].target_user_id = resp'.target
          ELSE audit' = audit]_vars

\* C19 witness: a request set a page to the value the role default of the
\* user gives already; the override row was written and the log stayed empty
NoOpNotLoggedWitness ==
    /\ resp.op = "update_user_page_access" /\ resp.status = 200
    /\ StatedDefault(users[resp.target].role, resp.page) = resp.value
    /\ \E i \in RowsFor(overrides, resp.target, resp.page) :
          overrides[i].has_access = resp.value
    /\ audit = <<>>

\* the metadata of a listed entry, under whichever of the two keys it has
EntryMetadata(e) == IF "metadata" \in DOMAIN e THEN e.metadata ELSE e.meta_data

\* C20: permission-change audit content: when an admin changes a user's page
\* access and the effective value changes, the entry as listRecent shows it
\* has action update_page_access, the admin as actor, the affected user as
\* target user and metadata that records the page and the granted value.
PageAccessAuditContent ==
    [][(/\ resp'.op = "update_user_page_access" /\ resp'.status = 200
        /\ PermissionBefore(resp'.target, resp'.page) # resp'.value) =>
          /\ Len(audit') > 0
          /\ LET e == AuditLogSchema(recent_result(audit'[Len(audit')]))
             IN /\ e.action = "update_page_access"
                /\ e.actor_id = resp'.by
                /\ e.target_user_id = resp'.target
                /\ "page" \in DOMAIN EntryMetadata(e)
                /\ EntryMetadata(e).page = resp'.page
                /\ "access_granted" \in DOMAIN EntryMetadata(e)
                /\ EntryMetadata(e).access_granted = resp'.value]_vars

\* C21: the permission-change operation returns the prior effective value of
\* (user, page) together with the new value: its answer has, besides the
\* message, one field that holds the prior value and one that holds the new.
PriorValueReturned ==
    [][(resp'.op = "update_user_page_access" /\ resp'.status = 200) =>
          \E prior, new \in DOMAIN resp'.body \ {"message"} :
             /\ prior # new
             /\ resp'.body[prior] = PermissionBefore(resp'.target, resp'.page)
             /\ resp'.body[new] = resp'.value]_vars

\* C22: rejected permission changes leave the state unchanged: a request
\* that is refused because the requester is not an admin or because the
\* target user does not exist writes no override row and no audit entry.
RejectedChangeNoEffect ==
    [][(resp'.op = "update_user_page_access" /\ resp'.status \in {400, 401, 403, 404}) =>
          UNCHANGED <<users, overrides, audit>>]_vars

\* C22 witness: an admin asked to set a page for a user that does not exist,
\* was answered 404, and no override row for that user is in the store
RejectedChangeWitness ==
    /\ resp.op = "update_user_page_access" /\ resp.status = 404
    /\ users[resp.by].role = "admin"
    /\ users[resp.target] = NoUser
    /\ RowsFor(overrides, resp.target, resp.page) = {}

\* the audit action each state-changing operation writes
AuditedAction ==
    [login |-> "login", logout |-> "logout", create_candidate |-> "create_candidate",
     create_user |-> "create_user", update_user |-> "update_user",
     delete_user |-> "delete_user", update_user_page_access |-> "update_page_access"]

\* the step changed what its operation is there to change: a login, a logout,
\* a creation and a deletion always do, an update when a field of the user
\* changes, a permission change when an effective permission changes
StateChanged ==
    CASE resp'.op = "update_user" -> users' # users
      [] resp'.op = "update_user_page_access" ->
            \E u \in UserIds, P \in PageName :
               /\ users[u] # NoUser
               /\ permissions_get(get_user_permissions(overrides', u, users[u].role), P)
                     # permissions_get(get_user_permissions(overrides, u, users[u].role), P)
      [] OTHER -> TRUE

\* C23: audit completeness: every successfully completed state-changing
\* operation appends one audit entry of its action whose actor_id is the
\* authenticated requester, who exists when the entry is written.
AuditCompleteness ==
    [][(resp'.op \in DOMAIN AuditedAction /\ resp'.status = 200 /\ StateChanged) =>
          /\ Len(audit') = Len(audit) + 1
          /\ audit'[Len(audit')].action = AuditedAction[resp'.op]
          /\ audit'[Len(audit')].actor_id = resp'.by
          /\ users[resp'.by] # NoUser]_vars

\* C24: e-mail uniqueness: in every state no two users share an e-mail
\* address, also when requests to create a user overlap and when update_user
\* changes an address; a request to create a user whose address exists is not
\* taken up, and its answer 400 leaves the users and the audit log unchanged.
EmailUniqueness ==
    /\ [](\A u, v \in UserIds :
             (u # v /\ users[u] # NoUser /\ users[v] # NoUser) =>
                users[u].email # users[v].email)
    /\ [][/\ (resp'.op = "create_user" /\ resp'.status = 400) =>
                UNCHANGED <<users, audit>>
          /\ \A w \in Workers :
                (inflight[w].pc = "idle" /\ inflight'[w].pc = "insert") =>
                   get_by_email(users, inflight'[w].email) = NULL]_vars

\* C24 witness: two requests to create a user with the same new address
\* overlapped; one created the user, the other ended on the unique index
EmailUniquenessWitness ==
    /\ resp.op = "create_user" /\ resp.status = 500
    /\ get_by_email(users, "newuser@example.com") # NULL

\* the operations that only resolve permissions
ResolveOps == {"get_my_permissions", "read_user_by_id", "read_page"}

\* the user whose permissions a resolution answer reports
Resolved(r) == IF r.op = "get_my_permissions" THEN r.by ELSE r.target

\* C25: resolver purity and isolation: a resolution changes neither users nor
\* override rows; setting a page for user u leaves the effective permission of
\* every other user for every page unchanged; and what a resolution reports
\* for a user is made of that user's own override rows and the defaults of the
\* role alone, whatever was set or resolved for other users before.
ResolverIsolation ==
    [][/\ resp'.op \in ResolveOps => UNCHANGED <<users, overrides, audit>>
       /\ resp'.op = "update_user_page_access" =>
             \A v \in UserIds \ {resp'.target}, Q \in PageName :
                users[v] # NoUser =>
                   permissions_get(get_user_permissions(overrides', v, users[v].role), Q)
                      = permissions_get(get_user_permissions(overrides, v, users[v].role), Q)
       /\ (resp'.op \in {"get_my_permissions", "read_user_by_id"} /\ resp'.status = 200) =>
             resp'.perms = [Q \in PageName |-> PermissionBefore(Resolved(resp'), Q)]]_vars

\* C25 witness: a resolution answered a user without override rows with the
\* defaults of the role while another user held an override that differs
\* from the default of that user's role
ResolverIsolationWitness ==
    /\ resp.op \in {"get_my_permissions", "read_user_by_id"} /\ resp.status = 200
    /\ overrides_of(overrides, Resolved(resp)) = <<>>
    /\ \E i \in 1..Len(overrides) :
          /\ users[overrides[i].user_id] # NoUser
          /\ overrides[i].has_access
                # StatedDefault(users[overrides[i].user_id].role, overrides[i].page_name)
          /\ resp.perms[overrides[i].page_name] # overrides[i].has_access

\* C26: enforced equals reported: for every user and every page behind a page
\* gate, the gate lets the user's request through exactly when the
\* permissions endpoint reports the page as true for the user.
EnforcedEqualsReported ==
    /\ (resp.op = "read_page" /\ get_current_user(users, resp.by) = 200) =>
          (resp.status = 200
             <=> get_user_permissions(overrides, resp.by, users[resp.by].role)[resp.page])
    /\ (resp.op = "get_my_permissions" /\ resp.status = 200) =>
          \A P \in GatedPages :
             resp.perms[P] <=> check_page_access(users, overrides, resp.by, P) = 200

\* C26 witness: the permissions endpoint reported a gated page with a value
\* that differs from the default of the user's role, and the gate refuses
\* the user on that page
EnforcedEqualsReportedWitness ==
    /\ resp.op = "get_my_permissions" /\ resp.status = 200
    /\ \E P \in GatedPages :
          /\ resp.perms[P] # StatedDefault(users[resp.by].role, P)
          /\ check_page_access(users, overrides, resp.by, P) = 403

\* what the users table says now about the user a token names: 401 without a
\* valid token, 404 deleted, 400 inactive, 200 existing and active
IdentityNow(u) ==
    CASE u = 0 -> 401
      [] u # 0 /\ users[u] = NoUser -> 404
      [] u # 0 /\ users[u] # NoUser /\ ~ users[u].active -> 400
      [] OTHER -> 200

\* C27: identity is re-read on every request: a request made with a token of
\* user u is decided by u's row in the users table at the time of the
\* request: it is rejected with the identity check's status and changes
\* nothing when u is deleted or inactive, it is not rejected by the identity
\* check when u exists and is active, the admin gate answers by u's
\* current role, and the permissions reported are those of the current role.
IdentityReRead ==
    [][(resp'.op # "login") =>
          /\ IdentityNow(resp'.by) # 200 =>
                /\ resp'.status = IdentityNow(resp'.by)
                /\ resp'.detail = gate_detail(resp'.status, "")
                /\ UNCHANGED data
          /\ IdentityNow(resp'.by) = 200 =>
                /\ resp'.detail \notin {"Inactive user", "Could not validate credentials"}
                /\ resp'.op \in AdminOps =>
                      ((resp'.status = 403) <=> (users[resp'.by].role # "admin"))
                /\ (resp'.op = "get_my_permissions" /\ resp'.status = 200) =>
                      resp'.perms = get_user_permissions(overrides, resp'.by,
                                                         users[resp'.by].role)]_vars

\* C27 witness: a user whose role or active flag was changed since the seed
\* state made a request to an admin endpoint, and the answer is the one of the
\* gate on the changed row, not the one the seed row would have given
IdentityReReadWitness ==
    /\ resp.op \in AdminOps /\ resp.by \in UserIds
    /\ \E i \in 1..Len(audit) :
          audit[i].action = "update_user" /\ audit[i].target_user_id = resp.by
    /\ resp.status = get_current_admin_user(users, resp.by)
    /\ resp.status # get_current_admin_user(seed_users, resp.by)

\* C28: self-deletion is refused: delete_user never removes the row of the
\* requester; a request of an admin that names the admin's own id is answered
\* 400 and leaves users, override rows and audit log unchanged; a request of
\* an admin that names an id without a user is answered 404 and leaves them
\* unchanged.
SelfDeletionRefused ==
    [][(resp'.op = "delete_user") =>
          /\ resp'.by \in UserIds => users'[resp'.by] = users[resp'.by]
          /\ (resp'.by \in UserIds /\ resp'.target = resp'.by) =>
                /\ resp'.status = 400
                /\ resp'.detail = "Cannot delete your own account"
                /\ UNCHANGED <<users, overrides, audit>>
          /\ (resp'.target \in UserIds /\ users[resp'.target] = NoUser) =>
                /\ resp'.status = 404
                /\ resp'.detail = "User not found"
                /\ UNCHANGED <<users, overrides, audit>>
          /\ resp'.status \in {400, 404} => UNCHANGED <<users, overrides, audit>>]_vars

\* C28 witness: an admin whose deletion nothing else would stop (no override
\* row, no audit entry of theirs) asked to delete their own account and was
\* refused
SelfDeletionRefusedWitness ==
    /\ resp.op = "delete_user" /\ resp.status = 400 /\ resp.target = resp.by
    /\ users[resp.by].role = "admin" /\ users[resp.by].active
    /\ ~ delete_blocked(overrides, audit, resp.by)

\* C28 witness of the second part: an admin asked to delete an id without a
\* user and was answered not found
DeleteNotFoundWitness ==
    /\ resp.op = "delete_user" /\ resp.status = 404 /\ resp.target \in UserIds
    /\ users[resp.target] = NoUser /\ users[resp.by].role = "admin"

\* the actor of audit row i exists and has role admin now
ActorIsAdminNow(i) ==
    /\ audit[i].actor_id \in UserIds
    /\ users[audit[i].actor_id] # NoUser
    /\ users[audit[i].actor_id].role = "admin"

\* C29: manager visibility uses the actor's current role: a manager's
\* listRecent returns no entry whose actor exists and has role admin when
\* the list is read, and returns every other entry when the limit allows,
\* whatever role the actor had when the entry was written.
ManagerSeesCurrentRole ==
    (resp.op = "get_recent_audit_logs" /\ resp.status = 200
        /\ users[resp.by].role = "manager") =>
        \A i \in 1..Len(audit) :
           /\ i \in Range(resp.logs) => ~ ActorIsAdminNow(i)
           /\ (resp.limit >= Len(audit) /\ ~ ActorIsAdminNow(i)) => i \in Range(resp.logs)

\* C29 witness: a user seeded as non-admin logged in, was then promoted to
\* admin, and a manager who lists the log afterwards does not receive the
\* login entry
ManagerSeesCurrentRoleWitness ==
    /\ resp.op = "get_recent_audit_logs" /\ resp.status = 200
    /\ users[resp.by].role = "manager" /\ resp.limit >= Len(audit)
    /\ \E i, j \in 1..Len(audit) :
          /\ i < j
          /\ audit[i].action = "login"
          /\ SeedRoles[audit[i].actor_id] # "admin"
          /\ audit[j].action = "update_user"
          /\ audit[j].target_user_id = audit[i].actor_id
          /\ users[audit[i].actor_id].role = "admin"
          /\ i \notin Range(resp.logs)

\* C29 witness of the other direction: an entry of an admin-only action
\* (written by a user who was admin then) is listed for a manager after its
\* actor's role was changed to a non-admin role
DemotedActorListedWitness ==
    /\ resp.op = "get_recent_audit_logs" /\ resp.status = 200
    /\ users[resp.by].role = "manager"
    /\ \E i \in Range(resp.logs) :
          /\ audit[i].action = "update_user"
          /\ users[audit[i].actor_id].role # "admin"

\* C30: visibility is consistent across the audit read endpoints: for a
\* non-admin requester, listForUser returns no entry that listRecent would
\* hide from the requester: an agent or viewer receives no entry whose
\* actor_id is not their own id, a manager no entry whose actor is an admin.
ListForUserWithinVisible ==
    (resp.op = "get_user_audit_logs" /\ resp.status = 200
        /\ users[resp.by].role # "admin") =>
        /\ Range(resp.logs) \subseteq VisibleEntries(resp.by)
        /\ users[resp.by].role \in {"agent", "viewer"} =>
              \A i \in Range(resp.logs) : audit[i].actor_id = resp.by
        /\ users[resp.by].role = "manager" =>
              \A i \in Range(resp.logs) : users[audit[i].actor_id].role # "admin"

====
